---- MODULE Spec2Model ----
(***************************************************************************)
(* Model of src/app.py (lazy-mysql-wizard): the DBViewerGUI chat / tool    *)
(* call / SQL execution state machine.  The GUI (Tk main loop) thread runs *)
(* the event handlers; every threading.Thread(...).start() creates a       *)
(* worker whose steps interleave with the handlers and with each other.    *)
(* A worker step is one access to the shared fields of DBViewerGUI (or one *)
(* blocking call to the model / the database) together with the local      *)
(* computation that follows it.                                            *)
(***************************************************************************)
EXTENDS Integers, Sequences, FiniteSets, TLC

\* ---------------------------------------------------------------- bounds
\* number of user actions (Send, Run Query, Use AI, Clear Chat, typing a
\* query) in one run
MaxUserActions == 2
\* number of tool calls the model requests in one run
MaxToolCalls == 2
\* number of failures in one run: a model call that raises, tool call
\* arguments that are not JSON, a query that raises, a connection that
\* cannot be opened
MaxFaults == 1
\* the ceiling on the number of messages of one model request that the
\* properties speak of, scaled down so that two turns exceed it
HistoryCeiling == 4

VARIABLES
    chat_history,       \* self.chat_history: list of message dicts
    chat_display,       \* self.chat_display: what append_chat_message wrote
    sql_text,           \* self.sql_text: contents of the SQL editor
    sql_history,        \* self.sql_history
    sql_history_index,  \* self.sql_history_index
    pending_tool_call,  \* self.pending_tool_call
    is_query_running,   \* self.is_query_running
    is_ai_thinking,     \* self.is_ai_thinking
    tables,             \* self.tables: the schema cache
    threads,            \* the live worker threads: id -> local state
    after_queue,        \* callbacks scheduled with self.after(0, ...)
    db_log,             \* history: every run_query call
    next_call_id,       \* ids the model API gives to tool calls
    isolated,           \* history: the latest send_chat started with no
                        \* worker alive and no other user action followed it
    actions_left,       \* user actions still allowed in this run
    faults_left,        \* failures still allowed in this run
    records,            \* ToolCallAssembler: the in-progress records
    finalized,          \* ToolCallAssembler: what finalize() returned
    fed,                \* history: the deltas fed to the assembler
    in_fence,           \* MarkdownRenderer: inside a fenced code block
    render_log          \* history: the latest render calls and their spans

vars == << chat_history, chat_display, sql_text, sql_history, sql_history_index,
           pending_tool_call, is_query_running, is_ai_thinking, tables,
           threads, after_queue, db_log, next_call_id, isolated, actions_left,
           faults_left, records, finalized, fed, in_fence, render_log >>

\* the state of the two leaf components, which the application's handlers
\* and workers never touch
leaf_vars == << records, finalized, fed, in_fence, render_log >>

\* ------------------------------------------------------------ text values
\* A text is a sequence of tokens; " " and "\n" are whitespace tokens.
Whitespace == {" ", "\n"}

QSelect == <<"SELECT", " ", "1">>
QDrop   == <<"DROP", " ", "TABLE", " ", "users">>
QShow   == <<"SHOW", " ", "TABLES">>
QEmpty  == <<>>

\* str.lower() on a token
Lower(tok) ==
    CASE tok = "SELECT"   -> "select"
      [] tok = "DROP"     -> "drop"
      [] tok = "SHOW"     -> "show"
      [] tok = "TABLE"    -> "table"
      [] tok = "TABLES"   -> "tables"
      [] tok = "DELETE"   -> "delete"
      [] tok = "FROM"     -> "from"
      [] tok = "DESCRIBE" -> "describe"
      [] tok = "EXPLAIN"  -> "explain"
      [] OTHER            -> tok

\* str.strip(): drop leading and trailing whitespace
RECURSIVE LStrip(_)
LStrip(s) == IF s # <<>> /\ Head(s) \in Whitespace THEN LStrip(Tail(s)) ELSE s

RECURSIVE RStrip(_)
RStrip(s) ==
    IF s # <<>> /\ s[Len(s)] \in Whitespace
    THEN RStrip(SubSeq(s, 1, Len(s) - 1)) ELSE s

Strip(s) == LStrip(RStrip(s))

\* str.split(): the non-whitespace tokens
Split(s) == SelectSeq(s, LAMBDA tok : tok \notin Whitespace)

\* self.sql_text.get('1.0', tk.END): Tk appends a newline to the contents
TextGet(t) == t \o <<"\n">>

\* ------------------------------------------------------------- tool calls
\* The arguments text of a tool call: valid JSON {"query": q}, the empty
\* text, or text that is not JSON.
ArgsJson(q) == [kind |-> "json", query |-> q]
ArgsNone    == [kind |-> "empty", query |-> <<>>]
ArgsBad     == [kind |-> "bad", query |-> <<>>]

None == [id |-> 0, name |-> "None", arguments |-> ArgsNone]

ToolCall(id, name, args) == [id |-> id, name |-> name, arguments |-> args]

\* the shapes of tool call a response may carry
CallShapes ==
    { [name |-> "run_sql_query", arguments |-> ArgsJson(QSelect)],
      [name |-> "run_sql_query", arguments |-> ArgsJson(QDrop)],
      [name |-> "run_sql_query", arguments |-> ArgsNone],
      [name |-> "run_sql_query", arguments |-> ArgsBad],
      [name |-> "get_table_details", arguments |-> ArgsNone] }

\* json.loads(self.get_func_args(func) or "{}"); func_args.get("query", "")
JsonLoads(args) ==
    CASE args.kind = "bad"   -> [ok |-> FALSE, query |-> <<>>]
      [] args.kind = "empty" -> [ok |-> TRUE, query |-> <<>>]
      [] OTHER               -> [ok |-> TRUE, query |-> args.query]

\* --------------------------------------------------------------- messages
Msg(role, content, tcs, id, q, cols, res) ==
    [role |-> role, content |-> content, tool_calls |-> tcs, tool_call_id |-> id,
     query_executed |-> q, columns |-> cols, result |-> res]

UserMsg(text)            == Msg("user", text, <<>>, 0, <<>>, "", "")
AssistantMsg(text)       == Msg("assistant", text, <<>>, 0, <<>>, "", "")
AssistantToolCalls(tcs)  == Msg("assistant", "", tcs, 0, <<>>, "", "")
SystemMsg                == Msg("system", "system_prompt", <<>>, 0, <<>>, "", "")

\* a tool message that answers no tool call
ToolOutputMsgWithoutId(tc, query, columns, result) ==
    Msg("tool", "", <<>>, 0, query, columns, result)

\* a tool message that reports the query the model asked for, whatever was
\* executed
ToolOutputMsgRequestedQuery(tc, query, columns, result) ==
    Msg("tool", "", <<>>, tc.id, JsonLoads(tc.arguments).query, columns, result)

\* the "tool" message _execute_sql_and_handle_tool_output builds
ToolOutputMsg(tc, query, columns, result) ==
    Msg("tool", "", <<>>, tc.id, query, columns, result)

\* messages_for_ai = [{"role": "system", ...}] + self.chat_history
MessagesForAi(history) == <<SystemMsg>> \o history

\* --------------------------------------------------------------- database
\* What can happen to one run_query(query) call: it succeeds, execute raises,
\* or connect_to_database returns None.
DbOutcomes(faults) ==
    {"ok"} \cup (IF faults > 0 THEN {"error", "noconn"} ELSE {})

\* the query succeeds and returns more rows than a summary may hold
LargeOutcomes == {"ok_many"}

OutcomeFaults(outcome) == IF outcome \in {"ok"} \cup LargeOutcomes THEN 0 ELSE 1

\* query.strip().lower().startswith("select") or ...startswith("show")
StartsWithSelectOrShow(query) ==
    LET s == Strip(query) IN s # <<>> /\ Lower(Head(s)) \in {"select", "show"}

\* run_query(query): the (columns, result) pair it returns; "rows" and
\* "many_rows" are the complete list cursor.fetchall() returned, of a few
\* rows and of more rows than a summary may hold
run_query(query, outcome) ==
    CASE outcome = "noconn" -> [columns |-> "None", result |-> "None"]
      [] outcome = "error"  -> [columns |-> "None", result |-> "error_text"]
      [] OTHER ->
           IF StartsWithSelectOrShow(query)
           THEN [columns |-> "columns",
                 result |-> IF outcome \in LargeOutcomes
                            THEN "many_rows" ELSE "rows"]
           ELSE [columns |-> "None", result |-> "Query executed successfully"]

\* query.strip().split()[0] raises IndexError when no token remains
FirstTokenRaises(query) == Split(Strip(query)) = <<>>

\* query.strip().split()[0].lower() in {"create", "drop", "alter", "rename"}
IsDDL(query) ==
    Lower(Head(Split(Strip(query)))) \in {"create", "drop", "alter", "rename"}

\* one entry of db_log: the query, the tool call it ran for (id 0: none),
\* the function whose call led to it (run_sql_query called by the GUI thread,
\* by ask_in_thread, or continue_ai_in_thread itself) and what happened; for
\* a run without tool call only whether the query reached the database is
\* kept
DbEntry(query, tc, caller, outcome) ==
    [query |-> query, tool_call_id |-> tc.id, caller |-> caller,
     outcome |-> IF tc = None /\ outcome # "noconn" THEN "sent" ELSE outcome]

\* ----------------------------------------------------------- model client
\* the failures in a list of tool calls: arguments that are not JSON
RECURSIVE BadCalls(_)
BadCalls(tcs) ==
    IF tcs = <<>> THEN 0
    ELSE (IF Head(tcs).arguments.kind = "bad" THEN 1 ELSE 0) + BadCalls(Tail(tcs))

\* The tool call lists a response may carry, with fresh ids from id on
\* (ids 1..MaxToolCalls exist in one run).
ToolCallLists(id) ==
    UNION { { [k \in 1..n |-> ToolCall(id + k - 1, f[k].name, f[k].arguments)] :
                f \in [1..n -> CallShapes] } : n \in 1..(MaxToolCalls + 1 - id) }

\* the failures a response takes from the run's budget
ResponseFaults(resp) ==
    IF resp.content = "AI Error" THEN 1 ELSE BadCalls(resp.tool_calls)

\* What ask_ai_with_tools returns: a message with content, a message with
\* tool calls, a message with neither, or (on an exception) an object with
\* content "AI Error: ..." and tool_calls None.
Responses(id, faults) ==
    { resp \in
        { [content |-> "answer", tool_calls |-> <<>>],
          [content |-> "", tool_calls |-> <<>>],
          [content |-> "AI Error", tool_calls |-> <<>>] }
        \cup { [content |-> "", tool_calls |-> tcs] : tcs \in ToolCallLists(id) } :
      ResponseFaults(resp) <= faults }

\* ---------------------------------------------------------------- threads
\* the local state of a worker: its target function, where it is, its local
\* variables (query, current_pending_tool_call, messages_for_ai, tool_calls
\* and the position in them, the exception being raised), and the thread
\* that started it
Thread(kind, pc, query, caller) ==
    [kind |-> kind, pc |-> pc, query |-> query, cur |-> None,
     messages |-> <<>>, tool_calls |-> <<>>, i |-> 0, exc |-> "",
     caller |-> caller]

\* threading.Thread(target=...).start(): the new thread takes the smallest
\* free id
FreeId(ths) ==
    CHOOSE i \in 1..(Cardinality(DOMAIN ths) + 1) :
        i \notin DOMAIN ths /\ \A j \in 1..(i - 1) : j \in DOMAIN ths

Spawn(ths, rec) ==
    LET id == FreeId(ths)
    IN  [j \in DOMAIN ths \cup {id} |-> IF j = id THEN rec ELSE ths[j]]

\* the thread's target function returns (or an exception ends it)
Exit(ths, t) == [j \in DOMAIN ths \ {t} |-> ths[j]]

\* the for loop over tool_calls moves to the next call, or leaves the loop
NextCall(th, after) ==
    IF th.i < Len(th.tool_calls)
    THEN [th EXCEPT !.i = @ + 1, !.pc = "loop"]
    ELSE [th EXCEPT !.pc = after]

\* an exception leaves the try block for its finally block
Raise(th, exc, after) == [th EXCEPT !.exc = exc, !.pc = after]

\* sql_history after run_sql_query (lines 423-424)
HistoryAfterRun(h, query) ==
    IF h = <<>> \/ query # h[Len(h)] THEN Append(h, query) ELSE h

\* self.sql_history_index = None
NoIndex == -1

\* self.tables after refresh_schema() when the statement was DDL (376-377)
TablesAfter(query, tbl) == IF IsDDL(query) THEN "refreshed" ELSE tbl

\* no worker thread alive and no scheduled callback left
Quiescent == DOMAIN threads = {} /\ after_queue = <<>>

\* lambda: self.set_query_running_state(False)
SetQueryIdle == [fn |-> "set_query_running_state", running |-> FALSE]

\* the leaf components after construction: no record, nothing returned, not
\* inside a fence
NotFinalized == [done |-> FALSE, calls |-> <<>>]

LeafInit ==
    /\ records = <<>>
    /\ finalized = NotFinalized
    /\ fed = <<>>
    /\ in_fence = FALSE
    /\ render_log = <<>>

Init ==
    /\ chat_history = <<>>
    /\ chat_display = <<>>
    /\ sql_text = <<>>
    /\ sql_history = <<>>
    /\ sql_history_index = NoIndex
    /\ pending_tool_call = None
    /\ is_query_running = FALSE
    /\ is_ai_thinking = FALSE
    /\ tables = "loaded"
    /\ threads = << >>
    /\ after_queue = <<>>
    /\ db_log = <<>>
    /\ next_call_id = 1
    /\ isolated = FALSE
    /\ actions_left = MaxUserActions
    /\ faults_left = MaxFaults
    /\ LeafInit

\* ------------------------------------------------- GUI thread: handlers
\* send_chat (lines 490-553), up to starting ask_in_thread
send_chat(user_msg) ==
    /\ actions_left > 0
    /\ ~is_ai_thinking
    /\ user_msg # ""
    /\ is_ai_thinking' = TRUE
    /\ chat_history' = Append(chat_history, UserMsg(user_msg))
    /\ chat_display' = Append(chat_display, [sender |-> "You", message |-> user_msg])
    /\ threads' = Spawn(threads, Thread("ask", "call", <<>>, "gui"))
    /\ isolated' = Quiescent
    /\ actions_left' = actions_left - 1
    /\ UNCHANGED << sql_text, sql_history, sql_history_index,
                    pending_tool_call, is_query_running, tables, after_queue,
                    db_log, next_call_id, faults_left >>
    /\ UNCHANGED leaf_vars

\* run_sql_query (lines 412-441) called by the Run Query button or
\* Ctrl+Enter, up to starting run_in_thread
run_sql_query ==
    LET query == Strip(TextGet(sql_text)) IN
    /\ actions_left > 0
    /\ ~is_query_running
    /\ query # <<>>
    /\ is_query_running' = TRUE
    /\ sql_history' = HistoryAfterRun(sql_history, query)
    /\ sql_history_index' = NoIndex
    /\ threads' = Spawn(threads, Thread("run", "read", query, "gui"))
    /\ isolated' = FALSE
    /\ actions_left' = actions_left - 1
    /\ UNCHANGED << chat_history, chat_display, sql_text, pending_tool_call,
                    is_ai_thinking, tables, after_queue, db_log,
                    next_call_id, faults_left >>
    /\ UNCHANGED leaf_vars

\* a use_ai_for_query without the is_ai_thinking test of line 557
use_ai_for_query_unguarded ==
    /\ actions_left > 0
    /\ Strip(TextGet(sql_text)) # <<>>
    /\ is_ai_thinking' = TRUE
    /\ threads' = Spawn(threads, Thread("generate", "await", <<>>, "gui"))
    /\ isolated' = FALSE
    /\ actions_left' = actions_left - 1
    /\ UNCHANGED << chat_history, chat_display, sql_text, sql_history,
                    sql_history_index, pending_tool_call, is_query_running,
                    tables, after_queue, db_log, next_call_id, faults_left >>
    /\ UNCHANGED leaf_vars

\* use_ai_for_query (lines 555-583), up to starting ai_generate
use_ai_for_query ==
    /\ actions_left > 0
    /\ ~is_ai_thinking
    /\ Strip(TextGet(sql_text)) # <<>>
    /\ is_ai_thinking' = TRUE
    /\ threads' = Spawn(threads, Thread("generate", "await", <<>>, "gui"))
    /\ isolated' = FALSE
    /\ actions_left' = actions_left - 1
    /\ UNCHANGED << chat_history, chat_display, sql_text, sql_history,
                    sql_history_index, pending_tool_call, is_query_running,
                    tables, after_queue, db_log, next_call_id, faults_left >>
    /\ UNCHANGED leaf_vars

\* clear_chat (lines 606-611)
clear_chat ==
    /\ actions_left > 0
    /\ chat_history' = <<>>
    /\ chat_display' = <<>>
    /\ isolated' = FALSE
    /\ actions_left' = actions_left - 1
    /\ UNCHANGED << sql_text, sql_history, sql_history_index,
                    pending_tool_call, is_query_running, is_ai_thinking,
                    tables, threads, after_queue, db_log, next_call_id,
                    faults_left >>
    /\ UNCHANGED leaf_vars

\* the user types a query into the SQL editor
edit_sql_text(q) ==
    /\ actions_left > 0
    /\ sql_text # q
    /\ sql_text' = q
    /\ isolated' = FALSE
    /\ actions_left' = actions_left - 1
    /\ UNCHANGED << chat_history, chat_display, sql_history,
                    sql_history_index, pending_tool_call, is_query_running,
                    is_ai_thinking, tables, threads, after_queue, db_log,
                    next_call_id, faults_left >>
    /\ UNCHANGED leaf_vars

\* the main loop runs the oldest callback scheduled with self.after(0, ...).
\* Only set_query_running_state(False) (line 439) is kept in the queue:
\* _update_result_tree (line 380) repaints the result widget and touches no
\* field of the model.
after_callback ==
    /\ after_queue # <<>>
    /\ after_queue' = Tail(after_queue)
    /\ is_query_running' = Head(after_queue).running
    /\ UNCHANGED << chat_history, chat_display, sql_text, sql_history,
                    sql_history_index, pending_tool_call, is_ai_thinking,
                    tables, threads, db_log, next_call_id, isolated,
                    actions_left, faults_left >>
    /\ UNCHANGED leaf_vars

\* ----------------------------------------- worker: send_chat.ask_in_thread
\* lines 506-517: snapshot the history and send the request
ask_call(t) ==
    /\ threads[t].kind = "ask" /\ threads[t].pc = "call"
    /\ threads' = [threads EXCEPT ![t].messages = MessagesForAi(chat_history),
                                  ![t].pc = "await"]
    /\ UNCHANGED << chat_history, chat_display, sql_text, sql_history,
                    sql_history_index, pending_tool_call, is_query_running,
                    is_ai_thinking, tables, after_queue, db_log,
                    next_call_id, isolated, actions_left, faults_left >>
    /\ UNCHANGED leaf_vars

\* the text appended for a response without tool calls (lines 540-547,
\* 477-484)
AnswerText(resp, fallback) == IF resp.content # "" THEN resp.content ELSE fallback

\* lines 517-524 and 540-547: the response arrives and is appended
ask_response(t) ==
    /\ threads[t].kind = "ask" /\ threads[t].pc = "await"
    /\ \E resp \in Responses(next_call_id, faults_left) :
        /\ next_call_id' = next_call_id + Len(resp.tool_calls)
        /\ faults_left' = faults_left - ResponseFaults(resp)
        /\ IF resp.tool_calls # <<>>
           THEN /\ chat_history' =
                       Append(chat_history, AssistantToolCalls(resp.tool_calls))
                /\ threads' = [threads EXCEPT ![t].messages = <<>>,
                                              ![t].tool_calls = resp.tool_calls,
                                              ![t].i = 1, ![t].pc = "loop"]
                /\ UNCHANGED chat_display
           ELSE LET text == AnswerText(resp, "AI did not provide a clear response.")
                IN  /\ chat_history' = Append(chat_history, AssistantMsg(text))
                    /\ chat_display' =
                           Append(chat_display, [sender |-> "AI", message |-> text])
                    /\ threads' = [threads EXCEPT ![t].messages = <<>>,
                                                  ![t].pc = "finally"]
    /\ UNCHANGED << sql_text, sql_history, sql_history_index,
                    pending_tool_call, is_query_running, is_ai_thinking,
                    tables, after_queue, db_log, isolated, actions_left >>
    /\ UNCHANGED leaf_vars

\* lines 527-539: decode one tool call; for run_sql_query put the query in
\* the editor and make the call pending
ask_tool_call(t) ==
    /\ threads[t].kind = "ask" /\ threads[t].pc = "loop"
    /\ LET th == threads[t]
           tc == th.tool_calls[th.i]
           func_args == JsonLoads(tc.arguments)
       IN  IF ~func_args.ok
           THEN \* json.loads raises
                /\ threads' = [threads EXCEPT
                                 ![t] = Raise(th, "JSONDecodeError", "finally")]
                /\ UNCHANGED << sql_text, pending_tool_call, chat_display >>
           ELSE IF tc.name = "run_sql_query"
           THEN /\ sql_text' = func_args.query
                /\ pending_tool_call' = tc
                /\ threads' = [threads EXCEPT ![t].pc = "rq_check"]
                /\ UNCHANGED chat_display
           ELSE /\ chat_display' =
                       Append(chat_display,
                              [sender |-> "AI",
                               message |-> "AI requested an unknown tool"])
                /\ threads' = [threads EXCEPT ![t] = NextCall(th, "finally")]
                /\ UNCHANGED << sql_text, pending_tool_call >>
    /\ UNCHANGED << chat_history, sql_history, sql_history_index,
                    is_query_running, is_ai_thinking, tables, after_queue,
                    db_log, next_call_id, isolated, actions_left,
                    faults_left >>
    /\ UNCHANGED leaf_vars

\* run_sql_query called from ask_in_thread (line 537), lines 414-419: the
\* two early returns
ask_run_sql_query_check(t) ==
    /\ threads[t].kind = "ask" /\ threads[t].pc = "rq_check"
    /\ LET th == threads[t]
           query == Strip(TextGet(sql_text))
       IN  threads' =
             IF is_query_running \/ query = <<>>
             THEN [threads EXCEPT ![t] = NextCall(th, "finally")]
             ELSE [threads EXCEPT ![t].query = query, ![t].pc = "rq_start"]
    /\ UNCHANGED << chat_history, chat_display, sql_text, sql_history,
                    sql_history_index, pending_tool_call, is_query_running,
                    is_ai_thinking, tables, after_queue, db_log,
                    next_call_id, isolated, actions_left, faults_left >>
    /\ UNCHANGED leaf_vars

\* run_sql_query called from ask_in_thread (line 537), lines 421-441
ask_run_sql_query_start(t) ==
    /\ threads[t].kind = "ask" /\ threads[t].pc = "rq_start"
    /\ LET th == threads[t] IN
        /\ is_query_running' = TRUE
        /\ sql_history' = HistoryAfterRun(sql_history, th.query)
        /\ sql_history_index' = NoIndex
        /\ threads' = Spawn([threads EXCEPT ![t] = NextCall(th, "finally")],
                            Thread("run", "read", th.query, "ask_in_thread"))
    /\ UNCHANGED << chat_history, chat_display, sql_text, pending_tool_call,
                    is_ai_thinking, tables, after_queue, db_log,
                    next_call_id, isolated, actions_left, faults_left >>
    /\ UNCHANGED leaf_vars

\* lines 548-551: the finally block of ask_in_thread
ask_finally(t) ==
    /\ threads[t].kind = "ask" /\ threads[t].pc = "finally"
    /\ is_ai_thinking' = IF ~is_query_running THEN FALSE ELSE is_ai_thinking
    /\ threads' = Exit(threads, t)
    /\ UNCHANGED << chat_history, chat_display, sql_text, sql_history,
                    sql_history_index, pending_tool_call, is_query_running,
                    tables, after_queue, db_log, next_call_id, isolated,
                    actions_left, faults_left >>
    /\ UNCHANGED leaf_vars

\* -------------------------------------- worker: run_sql_query.run_in_thread
\* line 429: current_pending_tool_call = self.pending_tool_call
run_read(t) ==
    /\ threads[t].kind = "run" /\ threads[t].pc = "read"
    /\ threads' = [threads EXCEPT ![t].cur = pending_tool_call, ![t].pc = "clear"]
    /\ UNCHANGED << chat_history, chat_display, sql_text, sql_history,
                    sql_history_index, pending_tool_call, is_query_running,
                    is_ai_thinking, tables, after_queue, db_log,
                    next_call_id, isolated, actions_left, faults_left >>
    /\ UNCHANGED leaf_vars

\* line 430: self.pending_tool_call = None
run_clear(t) ==
    /\ threads[t].kind = "run" /\ threads[t].pc = "clear"
    /\ pending_tool_call' = None
    /\ threads' = [threads EXCEPT ![t].pc = "exec"]
    /\ UNCHANGED << chat_history, chat_display, sql_text, sql_history,
                    sql_history_index, is_query_running, is_ai_thinking,
                    tables, after_queue, db_log, next_call_id, isolated,
                    actions_left, faults_left >>
    /\ UNCHANGED leaf_vars

\* a run_in_thread that reports every execution to the model, also one that
\* answers no tool call
run_execute_always_reports(t, outcome) ==
    /\ threads[t].kind = "run" /\ threads[t].pc = "exec"
    /\ LET th == threads[t]
            r  == run_query(th.query, outcome)
        IN  /\ db_log' = Append(db_log,
                                 DbEntry(th.query, th.cur, th.caller, outcome))
            /\ faults_left' = faults_left - OutcomeFaults(outcome)
            /\ tables' = TablesAfter(th.query, tables)
            /\ chat_history' =
                   Append(chat_history,
                          ToolOutputMsg(th.cur, th.query, r.columns, r.result))
            /\ threads' = Spawn(Exit(threads, t),
                                Thread("continue", "start", <<>>,
                                       "run_in_thread"))
            /\ UNCHANGED after_queue
    /\ UNCHANGED << chat_display, sql_text, sql_history, sql_history_index,
                    pending_tool_call, is_query_running, is_ai_thinking,
                    next_call_id, isolated, actions_left >>
    /\ UNCHANGED leaf_vars

\* line 432 with 373-396, then 434-439: run the query; with a tool call
\* append its tool message and start continue_ai_in_thread, without one
\* schedule set_query_running_state(False)
run_execute_outcome(t, outcome) ==
    /\ threads[t].kind = "run" /\ threads[t].pc = "exec"
    /\ LET th == threads[t]
            r  == run_query(th.query, outcome)
        IN  /\ db_log' = Append(db_log,
                                 DbEntry(th.query, th.cur, th.caller, outcome))
            /\ faults_left' = faults_left - OutcomeFaults(outcome)
            /\ tables' = TablesAfter(th.query, tables)
            /\ IF th.cur # None
               THEN /\ chat_history' =
                           Append(chat_history,
                                  ToolOutputMsg(th.cur, th.query,
                                                r.columns, r.result))
                    /\ threads' = Spawn(Exit(threads, t),
                                        Thread("continue", "start", <<>>,
                                               "run_in_thread"))
                    /\ UNCHANGED after_queue
               ELSE /\ after_queue' = Append(after_queue, SetQueryIdle)
                    /\ threads' = Exit(threads, t)
                    /\ UNCHANGED chat_history
    /\ UNCHANGED << chat_display, sql_text, sql_history, sql_history_index,
                    pending_tool_call, is_query_running, is_ai_thinking,
                    next_call_id, isolated, actions_left >>
    /\ UNCHANGED leaf_vars

\* the step with what the database may do in this run
run_execute(t) ==
    \E outcome \in DbOutcomes(faults_left) : run_execute_outcome(t, outcome)

\* ------------------- worker: continue_ai_conversation.continue_ai_in_thread
\* line 446: self.set_ai_thinking_state(True)
continue_start(t) ==
    /\ threads[t].kind = "continue" /\ threads[t].pc = "start"
    /\ is_ai_thinking' = TRUE
    /\ threads' = [threads EXCEPT ![t].pc = "call"]
    /\ UNCHANGED << chat_history, chat_display, sql_text, sql_history,
                    sql_history_index, pending_tool_call, is_query_running,
                    tables, after_queue, db_log, next_call_id, isolated,
                    actions_left, faults_left >>
    /\ UNCHANGED leaf_vars

\* lines 448-457: snapshot the history and send the request
continue_call(t) ==
    /\ threads[t].kind = "continue" /\ threads[t].pc = "call"
    /\ threads' = [threads EXCEPT ![t].messages = MessagesForAi(chat_history),
                                  ![t].pc = "await"]
    /\ UNCHANGED << chat_history, chat_display, sql_text, sql_history,
                    sql_history_index, pending_tool_call, is_query_running,
                    is_ai_thinking, tables, after_queue, db_log,
                    next_call_id, isolated, actions_left, faults_left >>
    /\ UNCHANGED leaf_vars

\* lines 457-464 and 477-484: the response arrives and is appended
continue_response(t) ==
    /\ threads[t].kind = "continue" /\ threads[t].pc = "await"
    /\ \E resp \in Responses(next_call_id, faults_left) :
        /\ next_call_id' = next_call_id + Len(resp.tool_calls)
        /\ faults_left' = faults_left - ResponseFaults(resp)
        /\ IF resp.tool_calls # <<>>
           THEN /\ chat_history' =
                       Append(chat_history, AssistantToolCalls(resp.tool_calls))
                /\ threads' = [threads EXCEPT ![t].messages = <<>>,
                                              ![t].tool_calls = resp.tool_calls,
                                              ![t].i = 1, ![t].pc = "loop"]
                /\ UNCHANGED chat_display
           ELSE LET text == AnswerText(resp,
                       "AI did not provide a clear response or tool call.")
                IN  /\ chat_history' = Append(chat_history, AssistantMsg(text))
                    /\ chat_display' =
                           Append(chat_display, [sender |-> "AI", message |-> text])
                    /\ threads' = [threads EXCEPT ![t].messages = <<>>,
                                                  ![t].pc = "fin1"]
    /\ UNCHANGED << sql_text, sql_history, sql_history_index,
                    pending_tool_call, is_query_running, is_ai_thinking,
                    tables, after_queue, db_log, isolated, actions_left >>
    /\ UNCHANGED leaf_vars

\* lines 467-474 with 373-396: decode one tool call and, for run_sql_query,
\* execute its query directly and append the tool message
continue_tool_call_outcome(t, outcome) ==
    /\ threads[t].kind = "continue" /\ threads[t].pc = "loop"
    /\ LET th == threads[t]
           tc == th.tool_calls[th.i]
           func_args == JsonLoads(tc.arguments)
       IN  IF ~func_args.ok
           THEN /\ threads' = [threads EXCEPT
                                 ![t] = Raise(th, "JSONDecodeError", "fin1")]
                /\ UNCHANGED << db_log, faults_left, tables, chat_history >>
           ELSE IF tc.name = "run_sql_query"
           THEN LET sql == func_args.query
                    r   == run_query(sql, outcome)
                IN  /\ db_log' = Append(db_log,
                                         DbEntry(sql, tc, "continue_ai_in_thread",
                                                 outcome))
                    /\ faults_left' = faults_left - OutcomeFaults(outcome)
                    /\ IF FirstTokenRaises(sql)
                       THEN \* IndexError at line 376
                            /\ threads' = [threads EXCEPT
                                             ![t] = Raise(th, "IndexError", "fin1")]
                            /\ UNCHANGED << tables, chat_history >>
                       ELSE /\ tables' = TablesAfter(sql, tables)
                            /\ chat_history' =
                                   Append(chat_history,
                                          ToolOutputMsg(tc, sql, r.columns, r.result))
                            /\ threads' = [threads EXCEPT ![t] = NextCall(th, "fin1")]
           ELSE /\ threads' = [threads EXCEPT ![t] = NextCall(th, "fin1")]
                /\ UNCHANGED << db_log, faults_left, tables, chat_history >>
    /\ UNCHANGED << chat_display, sql_text, sql_history, sql_history_index,
                    pending_tool_call, is_query_running, is_ai_thinking,
                    after_queue, next_call_id, isolated, actions_left >>
    /\ UNCHANGED leaf_vars

\* the step with what the database may do in this run
continue_tool_call(t) ==
    \E outcome \in DbOutcomes(faults_left) : continue_tool_call_outcome(t, outcome)

\* line 486: self.set_ai_thinking_state(False)
continue_finally_thinking(t) ==
    /\ threads[t].kind = "continue" /\ threads[t].pc = "fin1"
    /\ is_ai_thinking' = FALSE
    /\ threads' = [threads EXCEPT ![t].pc = "fin2"]
    /\ UNCHANGED << chat_history, chat_display, sql_text, sql_history,
                    sql_history_index, pending_tool_call, is_query_running,
                    tables, after_queue, db_log, next_call_id, isolated,
                    actions_left, faults_left >>
    /\ UNCHANGED leaf_vars

\* line 487: self.set_query_running_state(False)
continue_finally_running(t) ==
    /\ threads[t].kind = "continue" /\ threads[t].pc = "fin2"
    /\ is_query_running' = FALSE
    /\ threads' = Exit(threads, t)
    /\ UNCHANGED << chat_history, chat_display, sql_text, sql_history,
                    sql_history_index, pending_tool_call, is_ai_thinking,
                    tables, after_queue, db_log, next_call_id, isolated,
                    actions_left, faults_left >>
    /\ UNCHANGED leaf_vars

\* ------------------------------------ worker: use_ai_for_query.ai_generate
\* what ask_ai returns: an SQL text, the text "AI Error: ...", or None
GeneratedTexts == {QShow, <<"AI", " ", "Error">>, <<>>}

\* lines 575-579: the generated query replaces the editor text
generate_response(t) ==
    /\ threads[t].kind = "generate" /\ threads[t].pc = "await"
    /\ \E query \in GeneratedTexts : sql_text' = query
    /\ threads' = [threads EXCEPT ![t].pc = "finally"]
    /\ UNCHANGED << chat_history, chat_display, sql_history,
                    sql_history_index, pending_tool_call, is_query_running,
                    is_ai_thinking, tables, after_queue, db_log,
                    next_call_id, isolated, actions_left, faults_left >>
    /\ UNCHANGED leaf_vars

\* line 581: the finally block of ai_generate
generate_finally(t) ==
    /\ threads[t].kind = "generate" /\ threads[t].pc = "finally"
    /\ is_ai_thinking' = FALSE
    /\ threads' = Exit(threads, t)
    /\ UNCHANGED << chat_history, chat_display, sql_text, sql_history,
                    sql_history_index, pending_tool_call, is_query_running,
                    tables, after_queue, db_log, next_call_id, isolated,
                    actions_left, faults_left >>
    /\ UNCHANGED leaf_vars

\* --------------------------------------------------------- specification
\* what the user types into the chat entry and into the SQL editor
UserMessages == {"hi"}
UserTexts == {QShow}

GuiStep ==
    \/ \E m \in UserMessages : send_chat(m)
    \/ run_sql_query
    \/ use_ai_for_query
    \/ clear_chat
    \/ \E q \in UserTexts : edit_sql_text(q)
    \/ after_callback

WorkerStep(t) ==
    \/ ask_call(t)
    \/ ask_response(t)
    \/ ask_tool_call(t)
    \/ ask_run_sql_query_check(t)
    \/ ask_run_sql_query_start(t)
    \/ ask_finally(t)
    \/ run_read(t)
    \/ run_clear(t)
    \/ run_execute(t)
    \/ continue_start(t)
    \/ continue_call(t)
    \/ continue_response(t)
    \/ continue_tool_call(t)
    \/ continue_finally_thinking(t)
    \/ continue_finally_running(t)
    \/ generate_response(t)
    \/ generate_finally(t)

Next == GuiStep \/ \E t \in DOMAIN threads : WorkerStep(t)

Spec == Init /\ [][Next]_vars

\* ------------------------------------ one chat turn, results of any size
\* the program after construction, with one user action fewer to come
InitTurn ==
    /\ chat_history = <<>>
    /\ chat_display = <<>>
    /\ sql_text = <<>>
    /\ sql_history = <<>>
    /\ sql_history_index = NoIndex
    /\ pending_tool_call = None
    /\ is_query_running = FALSE
    /\ is_ai_thinking = FALSE
    /\ tables = "loaded"
    /\ threads = << >>
    /\ after_queue = <<>>
    /\ db_log = <<>>
    /\ next_call_id = 1
    /\ isolated = FALSE
    /\ actions_left = MaxUserActions - 1
    /\ faults_left = MaxFaults
    /\ LeafInit

\* what the database may do when results of any size are considered
TurnOutcomes == DbOutcomes(faults_left) \cup LargeOutcomes

TurnWorkerStep(t) ==
    \/ ask_call(t)
    \/ ask_response(t)
    \/ ask_tool_call(t)
    \/ ask_run_sql_query_check(t)
    \/ ask_run_sql_query_start(t)
    \/ ask_finally(t)
    \/ run_read(t)
    \/ run_clear(t)
    \/ \E outcome \in TurnOutcomes : run_execute_outcome(t, outcome)
    \/ continue_start(t)
    \/ continue_call(t)
    \/ continue_response(t)
    \/ \E outcome \in TurnOutcomes : continue_tool_call_outcome(t, outcome)
    \/ continue_finally_thinking(t)
    \/ continue_finally_running(t)

NextTurn ==
    \/ \E m \in UserMessages : send_chat(m)
    \/ \E t \in DOMAIN threads : TurnWorkerStep(t)

SpecTurn == InitTurn /\ [][NextTurn]_vars

\* ------------------------------------- the SQL editor and Run Query alone
\* what the user may type into the SQL editor: plain statements in either
\* case, with whitespace around them, after a line comment or a block
\* comment, and text that is only whitespace
EditorTexts ==
    { QShow, QSelect, QDrop,
      <<"select", " ", "1">>,
      <<"DELETE", " ", "FROM", " ", "users">>,
      <<"DESCRIBE", " ", "users">>,
      <<"EXPLAIN", " ", "SELECT", " ", "1">>,
      <<" ", "\n", "DROP", " ", "TABLE", " ", "users", "\n">>,
      <<"--", " ", "cleanup", "\n", "DELETE", " ", "FROM", " ", "users">>,
      <<"/*", " ", "old", "\n", "data", " ", "*/", " ", "DROP", " ", "TABLE",
        " ", "users">>,
      <<"drop", " ", "table", " ", "users">>,
      <<"SHOW", " ", "TABLES", "\n">>,
      <<" ", "\n">> }

EditorWorkerStep(t) ==
    \/ run_read(t)
    \/ run_clear(t)
    \/ run_execute(t)

NextEditor ==
    \/ \E q \in EditorTexts : edit_sql_text(q)
    \/ run_sql_query
    \/ after_callback
    \/ \E t \in DOMAIN threads : EditorWorkerStep(t)

SpecEditor == Init /\ [][NextEditor]_vars

\* ------------------------------------- the query history of the SQL editor
\* the number of user actions of a session with the query history
MaxHistoryActions == 7

\* what the user types into the SQL editor in such a session
HistoryTexts == {QShow, QSelect}

\* the program after construction, with the user actions of such a session
InitHistory ==
    /\ chat_history = <<>>
    /\ chat_display = <<>>
    /\ sql_text = <<>>
    /\ sql_history = <<>>
    /\ sql_history_index = NoIndex
    /\ pending_tool_call = None
    /\ is_query_running = FALSE
    /\ is_ai_thinking = FALSE
    /\ tables = "loaded"
    /\ threads = << >>
    /\ after_queue = <<>>
    /\ db_log = <<>>
    /\ next_call_id = 1
    /\ isolated = FALSE
    /\ actions_left = MaxHistoryActions
    /\ faults_left = MaxFaults
    /\ LeafInit

\* sql_history_up (lines 613-623): the Up key in the editor. The index is
\* the code's, counted from 0; sql_history[i] of the code is
\* sql_history[i + 1] here.
sql_history_up ==
    /\ actions_left > 0
    /\ sql_history # <<>>
    /\ sql_history_index' =
           IF sql_history_index = NoIndex THEN Len(sql_history) - 1
           ELSE IF sql_history_index > 0 THEN sql_history_index - 1
           ELSE sql_history_index
    /\ sql_text' = sql_history[sql_history_index' + 1]
    /\ isolated' = FALSE
    /\ actions_left' = actions_left - 1
    /\ UNCHANGED << chat_history, chat_display, sql_history,
                    pending_tool_call, is_query_running, is_ai_thinking,
                    tables, threads, after_queue, db_log, next_call_id,
                    faults_left >>
    /\ UNCHANGED leaf_vars

\* a sql_history_down that steps forward without the test of line 629
sql_history_down_unbounded ==
    /\ actions_left > 0
    /\ sql_history_index # NoIndex
    /\ sql_history_index' = sql_history_index + 1
    /\ sql_text' = IF sql_history_index' < Len(sql_history)
                   THEN sql_history[sql_history_index' + 1]
                   ELSE sql_text
    /\ isolated' = FALSE
    /\ actions_left' = actions_left - 1
    /\ UNCHANGED << chat_history, chat_display, sql_history,
                    pending_tool_call, is_query_running, is_ai_thinking,
                    tables, threads, after_queue, db_log, next_call_id,
                    faults_left >>
    /\ UNCHANGED leaf_vars

\* sql_history_down (lines 625-636): the Down key in the editor
sql_history_down ==
    /\ actions_left > 0
    /\ sql_history_index # NoIndex
    /\ IF sql_history_index < Len(sql_history) - 1
       THEN /\ sql_history_index' = sql_history_index + 1
            /\ sql_text' = sql_history[sql_history_index' + 1]
       ELSE /\ sql_text' = <<>>
            /\ sql_history_index' = NoIndex
    /\ isolated' = FALSE
    /\ actions_left' = actions_left - 1
    /\ UNCHANGED << chat_history, chat_display, sql_history,
                    pending_tool_call, is_query_running, is_ai_thinking,
                    tables, threads, after_queue, db_log, next_call_id,
                    faults_left >>
    /\ UNCHANGED leaf_vars

NextHistory ==
    \/ \E q \in HistoryTexts : edit_sql_text(q)
    \/ run_sql_query
    \/ sql_history_up
    \/ sql_history_down
    \/ after_callback
    \/ \E t \in DOMAIN threads : EditorWorkerStep(t)

SpecHistory == InitHistory /\ [][NextHistory]_vars

\* --------------------- run_sql_query statement by statement, in two threads
\* run_sql_query runs in the GUI thread (Run Query) and in ask_in_thread
\* (line 537) and takes no lock, so the statements of the two calls
\* interleave. Here the GUI thread's call in progress has an entry of kind
\* "gui" in threads, its position and its local query in it, and each call
\* takes lines 421, 423, 424 and 425-441 as separate steps (ask_in_thread
\* passes lines 414-419 in ask_run_sql_query_check).

\* the GUI thread is in its main loop, free to run a handler or a callback
GuiFree == \A t \in DOMAIN threads : threads[t].kind # "gui"

\* the callers of run_sql_query
InRunSqlQuery(t) == threads[t].kind \in {"ask", "gui"}

\* the program after construction, in a session without faults
InitRace ==
    /\ chat_history = <<>>
    /\ chat_display = <<>>
    /\ sql_text = <<>>
    /\ sql_history = <<>>
    /\ sql_history_index = NoIndex
    /\ pending_tool_call = None
    /\ is_query_running = FALSE
    /\ is_ai_thinking = FALSE
    /\ tables = "loaded"
    /\ threads = << >>
    /\ after_queue = <<>>
    /\ db_log = <<>>
    /\ next_call_id = 1
    /\ isolated = FALSE
    /\ actions_left = MaxUserActions
    /\ faults_left = 0
    /\ LeafInit

\* the Run Query button or Ctrl+Enter: the GUI thread enters run_sql_query
\* and passes the two early returns of lines 414-419
run_sql_query_enter ==
    LET query == Strip(TextGet(sql_text)) IN
    /\ actions_left > 0
    /\ ~is_query_running
    /\ query # <<>>
    /\ threads' = Spawn(threads, Thread("gui", "rq_start", query, "gui"))
    /\ isolated' = FALSE
    /\ actions_left' = actions_left - 1
    /\ UNCHANGED << chat_history, chat_display, sql_text, sql_history,
                    sql_history_index, pending_tool_call, is_query_running,
                    is_ai_thinking, tables, after_queue, db_log,
                    next_call_id, faults_left >>
    /\ UNCHANGED leaf_vars

\* line 421: self.set_query_running_state(True)
run_sql_query_set_running(t) ==
    /\ InRunSqlQuery(t) /\ threads[t].pc = "rq_start"
    /\ is_query_running' = TRUE
    /\ threads' = [threads EXCEPT ![t].pc = "rq_test"]
    /\ UNCHANGED << chat_history, chat_display, sql_text, sql_history,
                    sql_history_index, pending_tool_call, is_ai_thinking,
                    tables, after_queue, db_log, next_call_id, isolated,
                    actions_left, faults_left >>
    /\ UNCHANGED leaf_vars

\* line 423: if not self.sql_history or self.sql_history[-1] != query
run_sql_query_history_test(t) ==
    /\ InRunSqlQuery(t) /\ threads[t].pc = "rq_test"
    /\ threads' =
         [threads EXCEPT ![t].pc =
             IF sql_history = <<>> \/ sql_history[Len(sql_history)] # threads[t].query
             THEN "rq_append" ELSE "rq_index"]
    /\ UNCHANGED << chat_history, chat_display, sql_text, sql_history,
                    sql_history_index, pending_tool_call, is_query_running,
                    is_ai_thinking, tables, after_queue, db_log,
                    next_call_id, isolated, actions_left, faults_left >>
    /\ UNCHANGED leaf_vars

\* line 424: self.sql_history.append(query)
run_sql_query_history_append(t) ==
    /\ InRunSqlQuery(t) /\ threads[t].pc = "rq_append"
    /\ sql_history' = Append(sql_history, threads[t].query)
    /\ threads' = [threads EXCEPT ![t].pc = "rq_index"]
    /\ UNCHANGED << chat_history, chat_display, sql_text, sql_history_index,
                    pending_tool_call, is_query_running, is_ai_thinking,
                    tables, after_queue, db_log, next_call_id, isolated,
                    actions_left, faults_left >>
    /\ UNCHANGED leaf_vars

\* lines 425-441: reset the history index and start run_in_thread; the GUI
\* thread returns to its main loop, ask_in_thread to its loop over tool calls
run_sql_query_start_thread(t) ==
    /\ InRunSqlQuery(t) /\ threads[t].pc = "rq_index"
    /\ LET th == threads[t] IN
        /\ sql_history_index' = NoIndex
        /\ threads' =
             IF th.kind = "gui"
             THEN Spawn(Exit(threads, t), Thread("run", "read", th.query, "gui"))
             ELSE Spawn([threads EXCEPT ![t] = NextCall(th, "finally")],
                        Thread("run", "read", th.query, "ask_in_thread"))
    /\ UNCHANGED << chat_history, chat_display, sql_text, sql_history,
                    pending_tool_call, is_query_running, is_ai_thinking,
                    tables, after_queue, db_log, next_call_id, isolated,
                    actions_left, faults_left >>
    /\ UNCHANGED leaf_vars

\* one chat turn at most, so that the user's other action is a Run Query
RaceGuiStep ==
    \/ GuiFree /\ chat_history = <<>> /\ \E m \in UserMessages : send_chat(m)
    \/ GuiFree /\ run_sql_query_enter
    \/ GuiFree /\ after_callback

RaceWorkerStep(t) ==
    \/ ask_call(t)
    \/ ask_response(t)
    \/ ask_tool_call(t)
    \/ ask_run_sql_query_check(t)
    \/ run_sql_query_set_running(t)
    \/ run_sql_query_history_test(t)
    \/ run_sql_query_history_append(t)
    \/ run_sql_query_start_thread(t)
    \/ ask_finally(t)
    \/ run_read(t)
    \/ run_clear(t)
    \/ run_execute(t)
    \/ continue_start(t)
    \/ continue_call(t)
    \/ continue_response(t)
    \/ continue_tool_call(t)
    \/ continue_finally_thinking(t)
    \/ continue_finally_running(t)

NextRace == RaceGuiStep \/ \E t \in DOMAIN threads : RaceWorkerStep(t)

SpecRace == InitRace /\ [][NextRace]_vars

\* ------------------------------------------------------ ToolCallAssembler
\* The assembler and the renderer are described in the specification of the
\* program (sections 4.2 and 4.4); their code is not in src/app.py, which
\* takes the tool calls of a response fully formed (get_tool_calls) and
\* inserts message text as it is (append_chat_message). They are modelled
\* here from that description.

\* the state of the application, which the leaf components never touch
app_vars == << chat_history, chat_display, sql_text, sql_history,
               sql_history_index, pending_tool_call, is_query_running,
               is_ai_thinking, tables, threads, after_queue, db_log,
               next_call_id, isolated, actions_left, faults_left >>

\* the number of deltas of one assistant turn
MaxDeltas == 3

\* what a delta may carry: an index, and an id, a name and an argument
\* fragment, each of which may be empty
DeltaIndices   == 0..1
DeltaIds       == {"", "a", "b"}
DeltaNames     == {"", "f"}
DeltaFragments == {"", "X", "Y"}
Deltas ==
    [index : DeltaIndices, id : DeltaIds, name : DeltaNames,
     argument_fragment : DeltaFragments]

\* an empty placeholder; the argument buffer is a text, the sequence of the
\* fragments appended to it
EmptyRecord == [id |-> "", name |-> "", arguments |-> <<>>]

\* the array is extended lazily so that record[index] exists
Extend(recs, index) ==
    IF index < Len(recs) THEN recs
    ELSE recs \o [k \in 1..(index + 1 - Len(recs)) |-> EmptyRecord]

\* each non-empty field of a delta overwrites (id, name) or appends
\* (argument_fragment) the corresponding slot
Merge(rec, delta) ==
    [id        |-> IF delta.id # "" THEN delta.id ELSE rec.id,
     name      |-> IF delta.name # "" THEN delta.name ELSE rec.name,
     arguments |-> IF delta.argument_fragment # ""
                   THEN Append(rec.arguments, delta.argument_fragment)
                   ELSE rec.arguments]

\* an assembler that keeps the deltas in arrival order, whatever their index
FeedInArrivalOrder(recs, delta) == Append(recs, Merge(EmptyRecord, delta))

\* the records after feed(delta); record[index] is recs[index + 1] here
Feed(recs, delta) ==
    [Extend(recs, delta.index) EXCEPT ![delta.index + 1] = Merge(@, delta)]

\* feed(delta)
feed(delta) ==
    /\ Len(fed) < MaxDeltas
    /\ ~finalized.done
    /\ records' = Feed(records, delta)
    /\ fed' = Append(fed, delta)
    /\ UNCHANGED << finalized, in_fence, render_log >>
    /\ UNCHANGED app_vars

\* finalize(): the array in index order; it ends the turn
finalize ==
    /\ ~finalized.done
    /\ finalized' = [done |-> TRUE, calls |-> records]
    /\ UNCHANGED << records, fed, in_fence, render_log >>
    /\ UNCHANGED app_vars

NextAssembler ==
    \/ \E delta \in Deltas : feed(delta)
    \/ finalize

SpecAssembler == Init /\ [][NextAssembler]_vars

\* ------------------------------------------------------- MarkdownRenderer
\* the number of lines of a text to render
MaxLines == 2

\* the fence marker, in its form with tildes
FenceMarker == "~~~"

\* the lines of a text: fence markers (bare, indented and with a language),
\* a heading, a list item, a blockquote and plain text, none of them with
\* inline markup or a column separator
RenderLines ==
    { <<FenceMarker>>, <<" ", FenceMarker, "sql">>, <<"#", " ", "Title">>,
      <<"-", " ", "item">>, <<">", " ", "quote">>, <<"text">> }

\* the texts to render: sequences of at most MaxLines lines
RenderTexts == UNION { [1..n -> RenderLines] : n \in 0..MaxLines }

\* a line whose trimmed content starts with a fence marker
IsFence(line) == Strip(line) # <<>> /\ Strip(line)[1] = FenceMarker

\* a line outside a fence, classified in priority order; the text after the
\* marker is the text of the span
LineSpan(line) ==
    LET t == Strip(line)
        rest == IF t = <<>> THEN <<>> ELSE LStrip(Tail(t))
    IN  CASE t = <<>>                 -> [text |-> <<>>, style |-> "plain"]
          [] t[1] = "#"               -> [text |-> rest, style |-> "header1"]
          [] t[1] = ">"               -> [text |-> rest, style |-> "blockquote"]
          [] t[1] \in {"-", "*", "+"} /\ rest # <<>>
                                      -> [text |-> rest, style |-> "list_item"]
          [] OTHER                    -> [text |-> t, style |-> "plain"]

\* the spans of the lines, and the fence state after them, when the first
\* line is read in fence state fence: a fence line toggles the state and is
\* not itself emitted, a line inside a fence is emitted verbatim as
\* code_block
RECURSIVE RenderFrom(_, _)
RenderFrom(lines, fence) ==
    IF lines = <<>> THEN [spans |-> <<>>, fence |-> fence]
    ELSE IF IsFence(Head(lines)) THEN RenderFrom(Tail(lines), ~fence)
    ELSE LET r == RenderFrom(Tail(lines), fence)
             span == IF fence
                     THEN [text |-> Head(lines), style |-> "code_block"]
                     ELSE LineSpan(Head(lines))
         IN  [spans |-> <<span>> \o r.spans, fence |-> r.fence]

\* a renderer that goes on from the fence state the previous call left
RenderWithoutReset(text, fence) == RenderFrom(text, fence)

\* render(text) in a renderer whose fence state is fence: the state is reset
\* to not-in-fence at the start of the call
Render(text, fence) == RenderFrom(text, FALSE)

\* the log keeps the latest two calls
LatestTwo(log) == IF Len(log) <= 2 THEN log ELSE Tail(log)

\* render(text)
render(text) ==
    /\ LET r == Render(text, in_fence)
       IN  /\ in_fence' = r.fence
           /\ render_log' = LatestTwo(Append(render_log,
                                             [text |-> text, spans |-> r.spans]))
    /\ UNCHANGED << records, finalized, fed >>
    /\ UNCHANGED app_vars

NextRenderer == \E text \in RenderTexts : render(text)

SpecRenderer == Init /\ [][NextRenderer]_vars

\* ------------------------------------------------------------- properties
Range(s) == {s[k] : k \in 1..Len(s)}

\* the leading command of a query, in lower case ("" when there is none)
LeadingCommand(query) ==
    LET toks == Split(Strip(query))
    IN  IF toks = <<>> THEN "" ELSE Lower(Head(toks))

\* the commands a tool call must not run without the user's confirmation
DestructiveCommands ==
    {"delete", "drop", "truncate", "alter", "update", "insert", "create",
     "grant", "revoke"}

Destructive(query) == LeadingCommand(query) \in DestructiveCommands

\* the workers that wait for the chat model's response
ModelCallsInFlight ==
    {t \in DOMAIN threads :
        threads[t].kind \in {"ask", "continue"} /\ threads[t].pc = "await"}

\* the position of the latest user message in the history (0: none)
TurnStart ==
    LET users == {k \in 1..Len(chat_history) : chat_history[k].role = "user"}
    IN  IF users = {} THEN 0 ELSE CHOOSE k \in users : \A j \in users : j <= k

\* the messages appended after the latest user message
TurnMessages == SubSeq(chat_history, TurnStart + 1, Len(chat_history))

\* the run_query calls made for the tool call with this id
ExecutionsOf(id) == {k \in 1..Len(db_log) : db_log[k].tool_call_id = id}

\* C1: a query with a destructive leading command that the model requests
\* through run_sql_query is never passed to the database by the worker that
\* handles the response (only a run the user starts may send it).
C1_DestructiveNeverExecuted ==
    \A k \in 1..Len(db_log) :
        (db_log[k].caller # "gui" /\ db_log[k].outcome # "noconn")
            => ~Destructive(db_log[k].query)

\* C2: when a model call is issued, every tool call of every assistant
\* message among its messages is answered by exactly one later tool message
\* with that call's id.
C2_EveryToolCallAnswered ==
    \A t \in ModelCallsInFlight :
        LET msgs == threads[t].messages IN
        \A k \in 1..Len(msgs) : \A tc \in Range(msgs[k].tool_calls) :
            Cardinality({j \in (k + 1)..Len(msgs) :
                            /\ msgs[j].role = "tool"
                            /\ msgs[j].tool_call_id = tc.id}) = 1

\* C3: every tool message of the history answers a tool call of an assistant
\* message that stands earlier in the history.
C3_ToolMessageHasEarlierCall ==
    \A k \in 1..Len(chat_history) :
        chat_history[k].role = "tool" =>
            \E j \in 1..(k - 1) :
                /\ chat_history[j].role = "assistant"
                /\ \E tc \in Range(chat_history[j].tool_calls) :
                        tc.id = chat_history[k].tool_call_id

\* C4: there are never two workers performing a chat model call at the same
\* time.
C4_OneModelCallAtATime == Cardinality(ModelCallsInFlight) <= 1

\* C5: when no worker is alive and no callback is scheduled (nothing more
\* happens without a user action), the program is Idle: is_ai_thinking and
\* is_query_running are both false.
C5_QuiescentIsIdle == Quiescent => (~is_ai_thinking /\ ~is_query_running)

\* C6: a turn without other user actions that executed a tool ends with an
\* assistant message with text content as the last message of the history,
\* never with a tool message or a tool-call message.
C6_TurnEndsWithAnswer ==
    (/\ Quiescent
     /\ isolated
     /\ \E k \in 1..Len(TurnMessages) : TurnMessages[k].role = "tool")
        => LET last == chat_history[Len(chat_history)]
           IN  /\ last.role = "assistant"
               /\ last.tool_calls = <<>>
               /\ last.content # ""

\* a turn without other user actions whose first response is exactly one
\* run_sql_query call with a query that is not empty and not destructive
SingleQueryTurn ==
    /\ isolated
    /\ TurnMessages # <<>>
    /\ LET tcs == TurnMessages[1].tool_calls
       IN  /\ Len(tcs) = 1
           /\ tcs[1].name = "run_sql_query"
           /\ JsonLoads(tcs[1].arguments).ok
           /\ Strip(JsonLoads(tcs[1].arguments).query) # <<>>
           /\ ~Destructive(JsonLoads(tcs[1].arguments).query)

\* the tool call of such a turn
TurnCall == TurnMessages[1].tool_calls[1]

C8_ToolResultCarriesText ==
    \A k \in 1..Len(chat_history) :
        chat_history[k].role = "tool" => chat_history[k].result # "None"

\* C9: when a turn without other user actions is over and the arguments of
\* the first tool call of its response were not JSON, the last entry of the
\* conversation display is a message of the AI reporting it (not the user's
\* own message).
C9_ParseErrorReported ==
    (/\ Quiescent
     /\ isolated
     /\ TurnMessages # <<>>
     /\ TurnMessages[1].tool_calls # <<>>
     /\ ~JsonLoads(TurnMessages[1].tool_calls[1].arguments).ok)
        => /\ chat_display # <<>>
           /\ chat_display[Len(chat_display)].sender = "AI"

\* C10: every step that changes chat_history is a step of a GUI handler
\* (send_chat or clear_chat), never a step of a worker thread.
C10_HistoryChangedByGuiOnly ==
    [][chat_history' # chat_history =>
          ((\E m \in UserMessages : send_chat(m)) \/ clear_chat)]_vars

\* a tool call the code can run: run_sql_query with JSON arguments and a
\* query that is not empty
Runnable(tc) ==
    /\ tc.name = "run_sql_query"
    /\ JsonLoads(tc.arguments).ok
    /\ Strip(JsonLoads(tc.arguments).query) # <<>>

\* the positions in the turn of the tool messages that answer this call
AnswersTo(id) ==
    {j \in 1..Len(TurnMessages) :
        TurnMessages[j].role = "tool" /\ TurnMessages[j].tool_call_id = id}

\* C11: in a turn without other user actions the runnable tool calls of a
\* response are executed in list order: when a query has been run for call
\* i+1 the tool message of call i is in the history, and the tool messages
\* of the response stand in the order of its calls.
C11_CallsExecutedInOrder ==
    isolated =>
        \A k \in 1..Len(TurnMessages) :
            LET tcs == TurnMessages[k].tool_calls IN
            \A i \in 1..(Len(tcs) - 1) :
                (Runnable(tcs[i]) /\ Runnable(tcs[i + 1])) =>
                    /\ ExecutionsOf(tcs[i + 1].id) # {} => AnswersTo(tcs[i].id) # {}
                    /\ \A a \in AnswersTo(tcs[i].id) :
                         \A b \in AnswersTo(tcs[i + 1].id) : a < b

\* the workers that issue a model request in this step
Requesting ==
    {t \in DOMAIN threads \cap DOMAIN threads' :
        /\ threads[t].kind \in {"ask", "continue"}
        /\ threads[t].pc = "call"
        /\ threads'[t].kind = threads[t].kind
        /\ threads'[t].pc = "await"}

\* C13: the message list of every model request starts with the system
\* message, holds no other system message, continues with the whole current
\* history in order, and (for a request of send_chat) holds the user message
\* of the turn.
C13_RequestIsSystemPlusHistory ==
    [][\A t \in Requesting :
          LET msgs == threads'[t].messages IN
          /\ msgs # <<>>
          /\ msgs[1].role = "system"
          /\ \A k \in 2..Len(msgs) : msgs[k].role # "system"
          /\ SubSeq(msgs, 2, Len(msgs)) = chat_history
          /\ threads[t].kind = "ask" =>
                \E k \in 2..Len(msgs) : msgs[k].role = "user"]_vars

\* C14: no model request carries more than HistoryCeiling messages (the
\* system message and the HistoryCeiling - 1 most recent ones).
C14_RequestWithinCeiling ==
    \A t \in ModelCallsInFlight : Len(threads[t].messages) <= HistoryCeiling

\* C15: the tool message of an executed query never carries the complete
\* list of rows of a result set that is larger than a summary may hold (it
\* would carry the row count and a sample).
C15_ToolResultIsSummary ==
    \A k \in 1..Len(chat_history) :
        chat_history[k].role = "tool" => chat_history[k].result # "many_rows"

\* a text without its comments: a line comment runs from "--" to the end
\* of the line, a block comment from "/*" to the next "*/"
RECURSIVE StripComments(_, _)
StripComments(s, mode) ==
    IF s = <<>> THEN <<>>
    ELSE LET tok == Head(s) rest == Tail(s) IN
         CASE mode = "line"  -> IF tok = "\n"
                                THEN <<tok>> \o StripComments(rest, "text")
                                ELSE StripComments(rest, "line")
           [] mode = "block" -> IF tok = "*/"
                                THEN <<" ">> \o StripComments(rest, "text")
                                ELSE StripComments(rest, "block")
           [] OTHER -> IF tok = "--" THEN StripComments(rest, "line")
                       ELSE IF tok = "/*" THEN StripComments(rest, "block")
                       ELSE <<tok>> \o StripComments(rest, "text")

\* the command of a query as the classifier is to derive it: the first
\* token that remains without the comments ("" when none remains); case is
\* folded as LeadingCommand folds it
CommandWithoutComments(query) == LeadingCommand(StripComments(query, "text"))

\* C16: for every query passed to the database, the command the code derives
\* from it (its first token) is the first token that remains after removing
\* the line comments and the block comments.
C16_CommandIgnoresComments ==
    \A k \in 1..Len(db_log) :
        LeadingCommand(db_log[k].query) = CommandWithoutComments(db_log[k].query)

\* C17: deriving the command of a tool call's query never raises: no worker
\* is ended by an IndexError.
C17_CommandNeverRaises ==
    \A t \in DOMAIN threads : threads[t].exc # "IndexError"

\* no turn in flight: no worker alive, no callback scheduled, both busy
\* flags false
Idle == Quiescent /\ ~is_ai_thinking /\ ~is_query_running

\* C18: whenever the program is Idle, pending_tool_call is None.
C18_IdleHasNoPendingToolCall == Idle => pending_tool_call = None

\* the positions in the turn of the assistant messages without tool calls
TextAnswers ==
    {k \in 1..Len(TurnMessages) :
        TurnMessages[k].role = "assistant" /\ TurnMessages[k].tool_calls = <<>>}

\* C19: in a turn without other user actions, a response without tool calls
\* appends exactly one assistant message, with text (the content or the
\* fallback); from then on the turn makes no database execution, issues no
\* further model call and appends nothing more, and when its workers have
\* ended the program is Idle.
C19_TextResponseEndsTurn ==
    /\ [](isolated /\ TextAnswers # {} =>
            /\ Cardinality(TextAnswers) = 1
            /\ \A k \in TextAnswers : TurnMessages[k].content # ""
            /\ Quiescent => Idle)
    /\ [][(isolated /\ isolated' /\ TextAnswers # {} /\ TurnStart' = TurnStart) =>
            /\ db_log' = db_log
            /\ ModelCallsInFlight' \subseteq ModelCallsInFlight
            /\ chat_history' = chat_history]_vars

\* the tool messages of the history
ToolMessages == {k \in 1..Len(chat_history) : chat_history[k].role = "tool"}

\* C20: every tool message of the history reports as query_executed the query
\* text of a run_query call made for its tool call, and its columns and result
\* are what that call returned.
C20_ToolMessageReportsExecutedQuery ==
    \A k \in ToolMessages :
        \E j \in ExecutionsOf(chat_history[k].tool_call_id) :
            LET r == run_query(db_log[j].query, db_log[j].outcome)
            IN  /\ chat_history[k].query_executed = db_log[j].query
                /\ chat_history[k].columns = r.columns
                /\ chat_history[k].result = r.result

\* C20 applies where it matters: the user edited the editor text between the
\* tool call and its run, so that the history holds a tool message whose
\* query_executed is not the query its tool call asked for.
C20_EditedQueryReported ==
    \E k \in ToolMessages : \E a \in 1..(k - 1) :
        \E c \in 1..Len(chat_history[a].tool_calls) :
            LET tc == chat_history[a].tool_calls[c]
            IN  /\ tc.id = chat_history[k].tool_call_id
                /\ JsonLoads(tc.arguments).ok
                /\ JsonLoads(tc.arguments).query # chat_history[k].query_executed

\* the run_in_thread workers alive
RunWorkers == {t \in DOMAIN threads : threads[t].kind = "run"}

\* C23: at most one run_in_thread worker is alive at any time, and
\* is_query_running is true while one is.
C23_QueryRunsExclusively ==
    /\ Cardinality(RunWorkers) <= 1
    /\ RunWorkers # {} => is_query_running

\* the tool messages of the history that answer the tool call with this id
\* (run_in_thread starts one continue_ai_conversation for each it appends)
AnswersWithId(id) == {k \in ToolMessages : chat_history[k].tool_call_id = id}

\* C24: no two tool messages of the history carry the same tool_call_id: a
\* pending tool call is answered, and followed up, at most once.
C24_PendingConsumedOnce ==
    \A k \in ToolMessages :
        Cardinality(AnswersWithId(chat_history[k].tool_call_id)) = 1

\* this step is the execution step of run_in_thread worker t, which found no
\* pending tool call
PlainRunExecutes(t) ==
    /\ threads[t].kind = "run" /\ threads[t].pc = "exec"
    /\ threads[t].cur = None
    /\ t \notin DOMAIN threads' \/ threads'[t] # threads[t]

\* C25: the execution step of a run_in_thread worker that found
\* pending_tool_call = None passes its query to the database once, leaves the
\* history, the display and pending_tool_call unchanged, starts no thread (so
\* no model call), and schedules set_query_running_state(False).
C25_PlainRunLeavesHistory ==
    [][\A t \in DOMAIN threads :
          PlainRunExecutes(t) =>
              /\ chat_history' = chat_history
              /\ chat_display' = chat_display
              /\ pending_tool_call' = pending_tool_call
              /\ DOMAIN threads' = DOMAIN threads \ {t}
              /\ \A u \in DOMAIN threads' : threads'[u] = threads[u]
              /\ Len(db_log') = Len(db_log) + 1
              /\ db_log'[Len(db_log')].query = threads[t].query
              /\ after_queue' = Append(after_queue, SetQueryIdle)]_vars

\* C25 applies: with a conversation in the history, a query that answers no
\* tool call was executed and its worker and callback have finished, leaving
\* is_query_running false.
C25_PlainRunFinished ==
    /\ chat_history # <<>>
    /\ \E j \in 1..Len(db_log) : db_log[j].tool_call_id = 0 /\ db_log[j].caller = "gui"
    /\ Quiescent
    /\ ~is_query_running

\* the ai_generate workers alive in a thread table
GenerateWorkers(ths) == {t \in DOMAIN ths : ths[t].kind = "generate"}

\* this step starts an ai_generate worker, or is a step of one
GenerateStep ==
    \/ GenerateWorkers(threads') \ GenerateWorkers(threads) # {}
    \/ \E t \in GenerateWorkers(threads) :
          t \notin DOMAIN threads' \/ threads'[t] # threads[t]

\* C26: no ai_generate worker is started while is_ai_thinking is true; the
\* step that starts one and every step of one leave chat_history,
\* pending_tool_call and sql_history unchanged and pass nothing to the
\* database; and the step that ends one leaves is_ai_thinking false.
C26_GenerateOnlyEditsText ==
    [][/\ is_ai_thinking =>
              GenerateWorkers(threads') \subseteq GenerateWorkers(threads)
       /\ GenerateStep =>
              /\ chat_history' = chat_history
              /\ pending_tool_call' = pending_tool_call
              /\ sql_history' = sql_history
              /\ db_log' = db_log
       /\ \A t \in GenerateWorkers(threads) :
              t \notin DOMAIN threads' => ~is_ai_thinking']_vars

\* C26 applies: after a conversation, a generation whose model call failed
\* has ended, with the error text in the editor and is_ai_thinking false.
C26_FailedGenerationEnded ==
    /\ chat_history # <<>>
    /\ sql_text = <<"AI", " ", "Error">>
    /\ GenerateWorkers(threads) = {}
    /\ ~is_ai_thinking

\* sql_history_index is None or an index of sql_history
ValidIndex(i, h) == i = NoIndex \/ (0 <= i /\ i < Len(h))

\* the threads this step starts
Started == DOMAIN threads' \ DOMAIN threads

\* C27: sql_history_index is always None or a valid index of sql_history; a
\* step that changes it moves it one entry up (never below 0), one entry
\* down (never past the last entry), from None to the last entry, or to
\* None; and a step that accepts a Run Query (it starts run_in_thread) leaves
\* it None.
C27_HistoryIndexValid ==
    /\ [] ValidIndex(sql_history_index, sql_history)
    /\ [][/\ sql_history_index' # sql_history_index =>
                \/ sql_history_index' = NoIndex
                \/ /\ sql_history_index = NoIndex
                   /\ sql_history_index' = Len(sql_history) - 1
                \/ /\ sql_history_index # NoIndex
                   /\ sql_history_index' \in {sql_history_index - 1,
                                              sql_history_index + 1}
                   /\ ValidIndex(sql_history_index', sql_history)
          /\ (\E t \in Started : threads'[t].kind = "run") =>
                sql_history_index' = NoIndex]_vars

\* C27 applies: with two queries in the history the Up key has moved the
\* index from None to the last entry and on to the first, which is in the
\* editor, and no user action is left.
C27_IndexAtFirstEntry ==
    /\ Len(sql_history) = 2
    /\ sql_history_index = 0
    /\ sql_text = sql_history[1]
    /\ actions_left = 0

\* C28: sql_history never holds two equal adjacent entries, and a step
\* leaves it unchanged or appends one entry to it.
C28_HistoryHasNoRepeats ==
    /\ [](\A k \in 1..(Len(sql_history) - 1) : sql_history[k] # sql_history[k + 1])
    /\ [][\/ sql_history' = sql_history
          \/ /\ Len(sql_history') = Len(sql_history) + 1
             /\ SubSeq(sql_history', 1, Len(sql_history)) = sql_history]_vars

\* the deltas fed for index i, in arrival order
FedFor(i) ==
    LET HasIndex(d) == d.index = i
    IN  SelectSeq(fed, HasIndex)

\* the last non-empty value of a sequence of values ("" if none)
LastNonEmpty(vals) ==
    LET ks == {k \in 1..Len(vals) : vals[k] # ""}
    IN  IF ks = {} THEN "" ELSE vals[CHOOSE k \in ks : \A j \in ks : j <= k]

\* the argument fragments fed for index i, in arrival order
FragmentsFor(i) ==
    LET HasFragment(d) == d.argument_fragment # ""
        ds == SelectSeq(FedFor(i), HasFragment)
    IN  [k \in 1..Len(ds) |-> ds[k].argument_fragment]

\* the number of records: one more than the largest index fed
RecordsFed ==
    IF fed = <<>> THEN 0
    ELSE 1 + CHOOSE i \in DeltaIndices :
                /\ \E k \in 1..Len(fed) : fed[k].index = i
                /\ \A k \in 1..Len(fed) : fed[k].index <= i

\* C21: finalize returns one record per index from 0 to the largest index
\* fed; the record of an index has the last non-empty id and the last
\* non-empty name fed for that index and, as arguments, the fragments fed for
\* it in arrival order (an index never fed has the empty placeholder).
C21_FinalizeMergesByIndex ==
    finalized.done =>
        /\ Len(finalized.calls) = RecordsFed
        /\ \A i \in 0..(RecordsFed - 1) :
              LET ds == FedFor(i)
                  rec == finalized.calls[i + 1]
              IN  /\ rec.id = LastNonEmpty([k \in 1..Len(ds) |-> ds[k].id])
                  /\ rec.name = LastNonEmpty([k \in 1..Len(ds) |-> ds[k].name])
                  /\ rec.arguments = FragmentsFor(i)

\* C21 applies: indices 1, 0, 1 were fed with {id: b}, {id: a, name: f} and
\* {arguments: X}, and finalize returned [{a, f, ""}, {b, "", X}].
C21_InterleavedExample ==
    /\ fed = << [index |-> 1, id |-> "b", name |-> "", argument_fragment |-> ""],
                [index |-> 0, id |-> "a", name |-> "f", argument_fragment |-> ""],
                [index |-> 1, id |-> "", name |-> "", argument_fragment |-> "X"] >>
    /\ finalized.done
    /\ finalized.calls = << [id |-> "a", name |-> "f", arguments |-> <<>>],
                            [id |-> "b", name |-> "", arguments |-> <<"X">>] >>

\* C22: two render calls in succession with the same text return the same
\* spans.
C22_RenderTwiceSameSpans ==
    Len(render_log) = 2 =>
        (render_log[1].text = render_log[2].text =>
            render_log[1].spans = render_log[2].spans)

\* C22 applies: the same text was rendered twice, it leaves a fenced code
\* block unclosed (the renderer is in a fence after each call) and a line of
\* it was emitted as code_block.
C22_UnclosedFenceRenderedTwice ==
    /\ Len(render_log) = 2
    /\ render_log[1].text = render_log[2].text
    /\ in_fence
    /\ \E k \in 1..Len(render_log[2].spans) :
          render_log[2].spans[k].style = "code_block"

====
